---- MODULE Spec2Model ----
(***************************************************************************)
(* The sprite cache of src/spritecache.cpp as a state machine: the table   *)
(* _spritecache, the byte counter _spritecache_bytes_used, the access      *)
(* counter _sprite_lru_counter, and one action per public operation.       *)
(*                                                                         *)
(* Sizes are counted in units of 512 KiB and the 32-bit LRU counter is     *)
(* scaled to LruBits bits, keeping the ratios of the thresholds            *)
(* 0xC0000000 : 0x80000000 : 2^32 = 3 : 2 : 4.  Sprite ids are scaled to   *)
(* a table of MAX_SPRITES slots.  The bytes of an encoded sprite are       *)
(* represented by what determines them: the file and position they were    *)
(* decoded from, the sprite type they were decoded as, the scale and the   *)
(* encoder, together with their length; tail tells what follows the bytes  *)
(* read from the file in a buffer that is longer than they are: "none",    *)
(* "zero" (zero bytes) or "stale" (what the buffer held before).           *)
(***************************************************************************)
EXTENDS Integers, Sequences, FiniteSets, TLC

(* ------------------------------------------------------------------ *)
(* Program constants (scaled)                                          *)
(* ------------------------------------------------------------------ *)

\* Hard limit on the sprite table (spritecache.h), scaled.
MAX_SPRITES == 4

\* The "big red question mark" (table/sprites.h), scaled.
SPR_IMG_QUERY == 1

\* The recolour fallback (table/sprites.h), scaled.
PALETTE_TO_DARK_BLUE == 2

\* The reserved map generator range [SPR_MAPGEN_BEGIN, SPR_MAPGEN_END).
SPR_MAPGEN_BEGIN == 3

SPR_MAPGEN_END == 4

\* Default of _sprite_cache_size is 4 (MB); the model uses 1.
sprite_cache_size == 1

\* 1024 * 1024 bytes, in units of 512 KiB.
MiB == 2

\* The over-eviction margin 512 * 1024, in units of 512 KiB.
EvictMargin == 1

\* static const uint RECOLOUR_SPRITE_SIZE = 257, as one unit of size.
RECOLOUR_SPRITE_SIZE == 1

\* Width of _sprite_lru_counter in the model (32 in the program).
LruBits == 2

LruModulus == 2 ^ LruBits

\* 0xC0000000 = 3 * 2^30
LruRebaseAt == 3 * (2 ^ (LruBits - 2))

\* 0x80000000 = 2^31
LruPivot == 2 ^ (LruBits - 1)

\* SIZE_MAX, the "no such sprite" file position.
SIZE_MAX == 99

\* At most this many sprites are loaded or duplicated in one run.
MaxLoads == 2

\* At most this many GetRawSprite calls are made in one run.
MaxCalls == 3

\* At most this many SpriteFile objects are constructed in one run.
MaxFiles == 3

\* SkipSpriteData is called with at most this many bytes to skip.
MaxSkip == 6

\* At most this many chunks are read in one SkipSpriteData call.
MaxChunks == 3

\* A sprite section has at most this many records.
MaxRecords == 3

\* The sprite-section ids of the model are 1..MaxGrfId.
MaxGrfId == 2

SpriteTypes == {"Normal", "MapGen", "Font", "Recolour"}

IsMapgenSpriteID(id) == id >= SPR_MAPGEN_BEGIN /\ id < SPR_MAPGEN_END

(* ------------------------------------------------------------------ *)
(* Sprite bytes                                                        *)
(* ------------------------------------------------------------------ *)

\* An empty std::vector<byte>.
NoData == [len |-> 0, file |-> 0, pos |-> 0, as |-> "none", scale |-> "none", enc |-> "none", tail |-> "none"]

\* optional<float> scale: no value, the font zoom, or an explicit value.
NoScale == "none"

FontScale == "font"

UserScale == "user"

\* A value-initialised SpriteCache, as vector::resize creates it.
NewEntry == [file |-> 0, file_pos |-> 0, id |-> 0, type |-> "Normal", control_flags |-> 0,
             data |-> NoData, fractional_data |-> NoData, lru |-> 0, warned |-> FALSE]

(* ------------------------------------------------------------------ *)
(* The sprite files of the model                                       *)
(* ------------------------------------------------------------------ *)

\* What LoadNextSprite finds at the file cursor: the container version of
\* the file, the header (num, grf_type), whether SkipSpriteData accepts
\* the inline data, and what the lookup of a 0xFD reference in
\* _grf_sprite_offsets yields (ref: the file position in the sprite
\* section, 0 when the id is not found; flags: its control flags).
FileRecords == <<
  [file |-> 1, cv |-> 1, num |-> 0,   grf_type |-> "real", skip_ok |-> TRUE,  ref |-> 0, flags |-> 0],
  [file |-> 1, cv |-> 1, num |-> 20,  grf_type |-> "real", skip_ok |-> TRUE,  ref |-> 0, flags |-> 0],
  [file |-> 1, cv |-> 1, num |-> 257, grf_type |-> "FF",   skip_ok |-> TRUE,  ref |-> 0, flags |-> 0],
  [file |-> 1, cv |-> 1, num |-> 20,  grf_type |-> "real", skip_ok |-> FALSE, ref |-> 0, flags |-> 0],
  [file |-> 1, cv |-> 1, num |-> 1,   grf_type |-> "FF",   skip_ok |-> TRUE,  ref |-> 0, flags |-> 0],
  [file |-> 2, cv |-> 2, num |-> 4,   grf_type |-> "FD",   skip_ok |-> TRUE,  ref |-> 11, flags |-> 1],
  [file |-> 2, cv |-> 2, num |-> 4,   grf_type |-> "FD",   skip_ok |-> TRUE,  ref |-> 0, flags |-> 0],
  [file |-> 2, cv |-> 2, num |-> 5,   grf_type |-> "FD",   skip_ok |-> TRUE,  ref |-> 0, flags |-> 0],
  [file |-> 2, cv |-> 2, num |-> 20,  grf_type |-> "real", skip_ok |-> TRUE,  ref |-> 0, flags |-> 0],
  [file |-> 1, cv |-> 1, num |-> 30,  grf_type |-> "real", skip_ok |-> TRUE,  ref |-> 0, flags |-> 0],
  [file |-> 1, cv |-> 1, num |-> 17,  grf_type |-> "FF",   skip_ok |-> TRUE,  ref |-> 0, flags |-> 0]
>>

FilePositions == 1..Len(FileRecords)

\* The file positions whose pixel data SpriteLoaderGrf::LoadSprite cannot
\* decode, in either colour depth.
Undecodable == {}

\* The file positions whose sprite is stored zoomed out and so large that
\* ResizeSpriteIn finds a dimension above UINT16_MAX when it scales it up.
Oversized == {<<1, 10>>}

\* Length of the encoder's output for the sprite at a file position.
EncodedLen(file, pos) == IF file = 2 THEN 2 ELSE 1

(* ------------------------------------------------------------------ *)
(* The cache state threaded through the calls                          *)
(* ------------------------------------------------------------------ *)

\* st = [cache |-> _spritecache, used |-> _spritecache_bytes_used,
\*       ctr |-> _sprite_lru_counter].  Entry id is cache[id + 1].

GetSpriteCache(st, index) == st.cache[index + 1]

RECURSIVE Grow(_, _)
Grow(cache, n) == IF Len(cache) >= n THEN cache ELSE Grow(Append(cache, NewEntry), n)

AllocateSpriteCache(st, index) ==
  IF index >= Len(st.cache) THEN [st EXCEPT !.cache = Grow(st.cache, index + 1)] ELSE st

\* An existence test without the special case for sprite 0.
SpriteExists_NoZero(st, id) ==
  IF id >= Len(st.cache) THEN FALSE
  ELSE ~(GetSpriteCache(st, id).file_pos = 0 /\ GetSpriteCache(st, id).file = 0)

SpriteExists(st, id) ==
  IF id >= Len(st.cache) THEN FALSE
  ELSE IF id = 0 THEN TRUE
  ELSE ~(GetSpriteCache(st, id).file_pos = 0 /\ GetSpriteCache(st, id).file = 0)

\* SpriteCache::ClearSpriteData on entry index.
ClearSpriteData(st, index) ==
  [st EXCEPT !.used = @ - GetSpriteCache(st, index).data.len,
             !.cache[index + 1].data = NoData]

\* SpriteCache::ClearSpriteFractionalData on entry index.
ClearSpriteFractionalData(st, index) ==
  [st EXCEPT !.used = @ - GetSpriteCache(st, index).fractional_data.len,
             !.cache[index + 1].fractional_data = NoData]

\* Allocators: nullptr, a SimpleSpriteAllocator of the caller, or a
\* CacheSpriteAllocator bound to one entry's data or fractional_data.
NullAllocator == [kind |-> "null", id |-> 0, frac |-> FALSE]

SimpleAllocator == [kind |-> "simple", id |-> 0, frac |-> FALSE]

CacheAllocator(index, frac) == [kind |-> "cache", id |-> index, frac |-> frac]

\* An Allocate that forgets the bytes the buffer held before the resize.
Allocate_NoRelease(st, allocator, bytes) ==
  IF allocator.kind # "cache" THEN st
  ELSE IF allocator.frac
  THEN [st EXCEPT !.used = @ + bytes.len,
                  !.cache[allocator.id + 1].fractional_data = bytes]
  ELSE [st EXCEPT !.used = @ + bytes.len,
                  !.cache[allocator.id + 1].data = bytes]

\* allocator.Allocate(size) followed by the caller filling the buffer
\* with bytes: CacheSpriteAllocator resizes the entry's buffer and moves
\* the byte counter by the difference; SimpleSpriteAllocator mallocs.
Allocate(st, allocator, bytes) ==
  IF allocator.kind # "cache" THEN st
  ELSE IF allocator.frac
  THEN [st EXCEPT !.used = (@ - GetSpriteCache(st, allocator.id).fractional_data.len) + bytes.len,
                  !.cache[allocator.id + 1].fractional_data = bytes]
  ELSE [st EXCEPT !.used = (@ - GetSpriteCache(st, allocator.id).data.len) + bytes.len,
                  !.cache[allocator.id + 1].data = bytes]

(* ------------------------------------------------------------------ *)
(* GetRawSprite, HandleInvalidSpriteRequest, ReadSprite                *)
(* ------------------------------------------------------------------ *)

\* The result of a call: kind is "bytes" (the bytes returned), "null"
\* (a null pointer), or how the process ended: "UserError" (fatal error
\* with diagnostic), "assert" (failed assertion), "unreachable"
\* (NOT_REACHED), "ub" (null or out-of-range access), "recursion" (the
\* call re-entered itself with the same arguments and state, so the
\* recursion never ends).  depth is the deepest nesting of GetRawSprite.
Returned(st, bytes, depth) ==
  [kind |-> IF bytes.len = 0 THEN "null" ELSE "bytes", bytes |-> bytes, st |-> st, depth |-> depth]

Ended(st, kind, depth) == [kind |-> kind, bytes |-> NoData, st |-> st, depth |-> depth]

IsEnded(r) == r.kind \notin {"bytes", "null"}

\* SpriteLoaderGrf::LoadSprite, 32bpp first and then 8bpp.
LoadSprite(file, file_pos) == file_pos # SIZE_MAX /\ <<file, file_pos>> \notin Undecodable

\* encoder->Encode(spritecollection, allocator)
Encode(file, file_pos, sprite_type, scale, enc) ==
  [len |-> EncodedLen(file, file_pos), file |-> file, pos |-> file_pos,
   as |-> sprite_type, scale |-> scale, enc |-> enc, tail |-> "none"]

\* A substitution that falls back to sprite 0.
ResolveSprite_Zero(st, sprite) == IF ~SpriteExists(st, sprite) THEN 0 ELSE sprite

\* if (!SpriteExists(sprite)) sprite = SPR_IMG_QUERY;
ResolveSprite(st, sprite) == IF ~SpriteExists(st, sprite) THEN SPR_IMG_QUERY ELSE sprite

\* A substitution that knows only the question mark.
FallbackSprite_QueryOnly(requested) == SPR_IMG_QUERY

\* The fallback sprite HandleInvalidSpriteRequest substitutes for a
\* request of the given type.
FallbackSprite(requested) ==
  IF requested = "Recolour" THEN PALETTE_TO_DARK_BLUE ELSE SPR_IMG_QUERY

RECURSIVE GetRawSprite(_, _, _, _, _, _, _, _)
RECURSIVE HandleInvalidSpriteRequest(_, _, _, _, _, _)
RECURSIVE ReadSprite(_, _, _, _, _, _, _, _)

ReadSprite(st, id, sprite_type, scale, allocator, encoder, seen, depth) ==
  LET sc == GetSpriteCache(st, id)
      enc == IF encoder = "null" THEN "blitter" ELSE encoder
      sc_scale == IF sprite_type = "Font" /\ scale = NoScale THEN FontScale ELSE scale
  IN
  IF allocator.kind = "null" \/ sc.file = 0 THEN Ended(st, "ub", depth)
  ELSE IF sprite_type = "Recolour" THEN Ended(st, "assert", depth)
  ELSE IF IsMapgenSpriteID(id) # (sprite_type = "MapGen") THEN Ended(st, "assert", depth)
  ELSE IF sc.type # sprite_type THEN Ended(st, "assert", depth)
  ELSE IF ~LoadSprite(sc.file, sc.file_pos)
  THEN IF sprite_type = "MapGen" THEN Returned(st, NoData, depth)
       ELSE IF id = SPR_IMG_QUERY THEN Ended(st, "UserError", depth)
       ELSE GetRawSprite(st, SPR_IMG_QUERY, "Normal", sc_scale, allocator, enc, seen, depth)
  ELSE IF sprite_type = "MapGen"
  THEN LET s == Encode(sc.file, sc.file_pos, "MapGen", NoScale, "raw")
       IN Returned(Allocate(st, allocator, s), s, depth)
  ELSE IF sc_scale = NoScale /\ <<sc.file, sc.file_pos>> \in Oversized
  THEN IF id = SPR_IMG_QUERY THEN Ended(st, "UserError", depth)
       ELSE GetRawSprite(st, SPR_IMG_QUERY, "Normal", NoScale, allocator, enc, seen, depth)
  ELSE IF sc_scale # NoScale /\ <<sc.file, sc.file_pos>> \in Oversized
  THEN \* the result of ResizeSpriteIn is dropped and erase_if empties the
       \* collection: Encode reads a level that is not there
       Ended(st, "ub", depth)
  ELSE LET s == Encode(sc.file, sc.file_pos, sprite_type, sc_scale, enc)
       IN Returned(Allocate(st, allocator, s), s, depth)

HandleInvalidSpriteRequest(st, sprite, requested, allocator, seen, depth) ==
  LET sc == GetSpriteCache(st, sprite)
      available == sc.type
  IN
  IF requested = "Font" /\ available = "Normal"
  THEN LET st1 == IF sc.data = NoData THEN [st EXCEPT !.cache[sprite + 1].type = "Font"] ELSE st
       IN GetRawSprite(st1, sprite, GetSpriteCache(st1, sprite).type, NoScale, allocator, "null", seen, depth)
  ELSE LET st1 == [st EXCEPT !.cache[sprite + 1].warned = TRUE]
           fallback == FallbackSprite(requested)
       IN CASE requested = "Normal" ->
                 IF sprite = SPR_IMG_QUERY THEN Ended(st1, "UserError", depth)
                 ELSE GetRawSprite(st1, fallback, "Normal", NoScale, allocator, "null", seen, depth)
            [] requested = "Font" ->
                 GetRawSprite(st1, fallback, "Normal", NoScale, allocator, "null", seen, depth)
            [] requested = "Recolour" ->
                 IF sprite = PALETTE_TO_DARK_BLUE THEN Ended(st1, "UserError", depth)
                 ELSE GetRawSprite(st1, fallback, "Recolour", NoScale, allocator, "null", seen, depth)
            [] OTHER -> Ended(st1, "unreachable", depth)

GetRawSprite(st, sprite_in, type, scale, allocator, encoder, seen, depth) ==
  LET call == <<st, sprite_in, type, scale, allocator, encoder>>
      sprite == ResolveSprite(st, sprite_in)
      now == seen \cup {call}
      d == depth + 1
  IN
  IF call \in seen THEN Ended(st, "recursion", depth)
  ELSE IF type = "MapGen" /\ ~IsMapgenSpriteID(sprite_in) THEN Ended(st, "assert", d)
  ELSE IF sprite >= Len(st.cache) THEN Ended(st, "ub", d)
  ELSE IF GetSpriteCache(st, sprite).type # type
  THEN HandleInvalidSpriteRequest(st, sprite, type, allocator, now, d)
  ELSE IF allocator.kind = "null" /\ encoder = "null"
  THEN LET ctr == (st.ctr + 1) % LruModulus
           st1 == [st EXCEPT !.ctr = ctr, !.cache[sprite + 1].lru = ctr]
           frac == scale # NoScale
           sc == GetSpriteCache(st1, sprite)
           resident == IF frac THEN sc.fractional_data # NoData ELSE sc.data # NoData
           r == IF resident THEN Returned(st1, NoData, d)
                ELSE ReadSprite(st1, sprite, type, scale, CacheAllocator(sprite, frac), "null", now, d)
       IN IF IsEnded(r) THEN r
          ELSE Returned(r.st,
                        IF frac THEN GetSpriteCache(r.st, sprite).fractional_data
                        ELSE GetSpriteCache(r.st, sprite).data,
                        r.depth)
  ELSE ReadSprite(st, sprite, type, scale, allocator, encoder, now, d)

\* A warning level that ignores the warned flag.
WarningLevel_AlwaysLoud(st, sprite_in, type) ==
  LET sprite == ResolveSprite(st, sprite_in) IN
  IF sprite >= Len(st.cache) THEN -1
  ELSE IF GetSpriteCache(st, sprite).type = type THEN -1
  ELSE IF type = "Font" /\ GetSpriteCache(st, sprite).type = "Normal" THEN -1
  ELSE 0

\* The debug level at which GetRawSprite(sprite_in, type) logs "Tried to
\* load ... sprite #n as a ... sprite": warning_level = sc->warned ? 6 : 0
\* for the entry the id resolves to, and -1 where the request logs no
\* mismatch.
WarningLevel(st, sprite_in, type) ==
  LET sprite == ResolveSprite(st, sprite_in) IN
  IF sprite >= Len(st.cache) THEN -1
  ELSE IF GetSpriteCache(st, sprite).type = type THEN -1
  ELSE IF type = "Font" /\ GetSpriteCache(st, sprite).type = "Normal" THEN -1
  ELSE IF GetSpriteCache(st, sprite).warned THEN 6 ELSE 0

(* ------------------------------------------------------------------ *)
(* DeleteEntriesFromSpriteCache                                        *)
(* ------------------------------------------------------------------ *)

\* The candidates vector: a sequence of SpriteInfo [lru, id, size], kept
\* by the code as a max heap on lru.  Which of several candidates with
\* the same largest lru is at the front is left to std::push_heap and
\* std::pop_heap, so every one of them is a possible front.

SpriteInfo(st, i) ==
  [lru |-> GetSpriteCache(st, i).lru, id |-> i, size |-> GetSpriteCache(st, i).data.len]

RECURSIVE candidate_bytes(_)
candidate_bytes(c) == IF c = <<>> THEN 0 ELSE Head(c).size + candidate_bytes(Tail(c))

\* A heap ordered the wrong way round: the front is a least recently used candidate.
Fronts_MinHeap(c) == {k \in 1..Len(c) : \A j \in 1..Len(c) : c[j].lru >= c[k].lru}

Fronts(c) == {k \in 1..Len(c) : \A j \in 1..Len(c) : c[j].lru <= c[k].lru}

RemoveAt(c, k) == SubSeq(c, 1, k - 1) \o SubSeq(c, k + 1, Len(c))

\* A candidate test that forgets the sprite type.
IsCandidate_AnyType(sc) == sc.data # NoData

\* sc->type != SpriteType::Recolour && !sc->data.empty()
IsCandidate(sc) == sc.type # "Recolour" /\ sc.data # NoData

\* while (!candidates.empty() && candidate_bytes - front.size >= to_remove) pop();
RECURSIVE PopWhile(_, _)
PopWhile(c, to_remove) ==
  IF c = <<>> THEN {c}
  ELSE UNION { IF candidate_bytes(c) - c[k].size >= to_remove
               THEN PopWhile(RemoveAt(c, k), to_remove)
               ELSE {c} : k \in Fronts(c) }

\* The first loop: leaves i at the entry pushed last when it breaks.
RECURSIVE FirstPass(_, _, _, _)
FirstPass(st, i, c, to_remove) ==
  IF i = Len(st.cache) \/ candidate_bytes(c) >= to_remove THEN [i |-> i, c |-> c]
  ELSE IF IsCandidate(GetSpriteCache(st, i))
  THEN LET c1 == Append(c, SpriteInfo(st, i))
       IN IF candidate_bytes(c1) >= to_remove THEN [i |-> i, c |-> c1]
          ELSE FirstPass(st, i + 1, c1, to_remove)
  ELSE FirstPass(st, i + 1, c, to_remove)

\* The second loop, from the i the first loop stopped at, over every
\* possible heap content cs.
RECURSIVE SecondPass(_, _, _, _)
SecondPass(st, i, cs, to_remove) ==
  IF i = Len(st.cache) THEN cs
  ELSE LET sc == GetSpriteCache(st, i)
           step(c) == IF c # <<>> /\ IsCandidate(sc) /\ \E k \in 1..Len(c) : sc.lru <= c[k].lru
                      THEN PopWhile(Append(c, SpriteInfo(st, i)), to_remove)
                      ELSE {c}
       IN SecondPass(st, i + 1, UNION {step(c) : c \in cs}, to_remove)

RECURSIVE ClearCandidates(_, _)
ClearCandidates(st, c) ==
  IF c = <<>> THEN st ELSE ClearCandidates(ClearSpriteData(st, Head(c).id), Tail(c))

\* The candidate vectors the two loops can end with.
EvictionCandidates(st, to_remove) ==
  LET first == FirstPass(st, 0, <<>>, to_remove)
  IN SecondPass(st, first.i, {first.c}, to_remove)

\* The states DeleteEntriesFromSpriteCache(to_remove) can leave.
DeleteEntriesFromSpriteCache(st, to_remove) ==
  {ClearCandidates(st, c) : c \in EvictionCandidates(st, to_remove)}

\* target_size of IncreaseSpriteLRU for a screen depth of bpp.
TargetSize(bpp) == (IF bpp > 0 THEN (sprite_cache_size * bpp) \div 8 ELSE 1) * MiB

\* The argument IncreaseSpriteLRU passes, 0 when it does not evict.
ToRemove(st, bpp) ==
  IF st.used > TargetSize(bpp) THEN (st.used - TargetSize(bpp)) + EvictMargin ELSE 0

\* A rebase that forgets every stamp.
FixLru_ZeroAll(st) ==
  IF st.ctr >= LruRebaseAt
  THEN [st EXCEPT !.cache = [k \in 1..Len(st.cache) |-> [st.cache[k] EXCEPT !.lru = 0]],
                  !.ctr = @ - LruPivot]
  ELSE st

\* The rebase of the LRU stamps at the end of IncreaseSpriteLRU.
FixLru(st) ==
  IF st.ctr >= LruRebaseAt
  THEN [st EXCEPT !.cache = [k \in 1..Len(st.cache) |->
                               IF st.cache[k].data # NoData
                               THEN [st.cache[k] EXCEPT !.lru = IF @ > LruPivot THEN @ - LruPivot ELSE 0]
                               ELSE st.cache[k]],
                  !.ctr = @ - LruPivot]
  ELSE st

(* ------------------------------------------------------------------ *)
(* State                                                               *)
(* ------------------------------------------------------------------ *)

VARIABLES
  spritecache,     \* _spritecache
  bytes_used,      \* _spritecache_bytes_used
  lru_counter,     \* _sprite_lru_counter
  ended,           \* "running", or how the process ended
  loads,           \* sprites loaded or duplicated so far
  calls,           \* GetRawSprite calls made so far
  sprite_files,    \* _sprite_files: the SpriteFile objects of the pool, in order
  files_made,      \* SpriteFile objects constructed so far
  grf_file,        \* the container ReadGRFSpriteOffsets is given
  grf_sprite_offsets, \* _grf_sprite_offsets
  skip,            \* the locals of SkipSpriteData and the bytes it has accounted for
  spritecollection, \* the SpriteCollection of a load
  resize_pc        \* how far the load has got with the collection

cache_vars == <<spritecache, bytes_used, lru_counter, ended, loads, calls>>

file_vars == <<sprite_files, files_made>>

grf_vars == <<grf_file, grf_sprite_offsets>>

resize_vars == <<spritecollection, resize_pc>>

vars == <<cache_vars, file_vars, grf_vars, skip, resize_vars>>

\* No file is open, no container has been scanned and no sprite is being
\* read: the values the file-side variables have while the cache works.
NoFile == [cv |-> 0, section |-> <<>>, scanned |-> FALSE]

NoSkip == [type |-> 0, num0 |-> 0, num |-> 0, skipped |-> 0, chunks |-> 0, result |-> "none"]

FilesIdle ==
  /\ sprite_files = <<>>
  /\ files_made = 0

GrfIdle ==
  /\ grf_file = NoFile
  /\ grf_sprite_offsets = <<>>

SkipIdle == skip = NoSkip

ResizeIdle ==
  /\ spritecollection = <<>>
  /\ resize_pc = "none"

State == [cache |-> spritecache, used |-> bytes_used, ctr |-> lru_counter]

Init ==
  /\ spritecache = <<>>
  /\ bytes_used = 0
  /\ lru_counter = 0
  /\ ended = "running"
  /\ loads = 0
  /\ calls = 0
  /\ FilesIdle /\ GrfIdle /\ SkipIdle /\ ResizeIdle

Store(st) ==
  /\ spritecache' = st.cache
  /\ bytes_used' = st.used
  /\ lru_counter' = st.ctr

\* The process ends (UserError, failed assertion, crash): its memory is gone.
End(kind) ==
  /\ ended' = kind
  /\ spritecache' = <<>>
  /\ bytes_used' = 0
  /\ lru_counter' = 0
  /\ loads' = 0
  /\ calls' = 0

(* ------------------------------------------------------------------ *)
(* The SpriteFile pool                                                 *)
(* ------------------------------------------------------------------ *)

\* The names files are opened by.
Filenames == {"base.grf", "extra.grf"}

\* A SpriteFile object of the pool: the name it was opened by and the
\* identity of the object (the n-th SpriteFile constructed), which is what
\* a reference to it refers to.  0 is the null pointer.
GetCachedSpriteFileByName(files, filename) ==
  IF \E k \in 1..Len(files) : files[k].filename = filename
  THEN files[CHOOSE k \in 1..Len(files) :
               /\ files[k].filename = filename
               /\ \A j \in 1..(k - 1) : files[j].filename # filename].handle
  ELSE 0

\* An open that never looks the name up.
OpenedSpriteFiles_NoLookup(files, made, filename) ==
  Append(files, [filename |-> filename, handle |-> made + 1])

\* _sprite_files after OpenCachedSpriteFile(filename), made objects having
\* been constructed before.
OpenedSpriteFiles(files, made, filename) ==
  IF GetCachedSpriteFileByName(files, filename) = 0
  THEN Append(files, [filename |-> filename, handle |-> made + 1])
  ELSE files

\* The reference OpenCachedSpriteFile(filename) returns.
OpenedHandle(files, made, filename) ==
  GetCachedSpriteFileByName(OpenedSpriteFiles(files, made, filename), filename)

OpenCachedSpriteFile(filename) ==
  /\ ended = "running"
  /\ files_made < MaxFiles
  /\ sprite_files' = OpenedSpriteFiles(sprite_files, files_made, filename)
  /\ files_made' = IF GetCachedSpriteFileByName(sprite_files, filename) = 0
                   THEN files_made + 1 ELSE files_made
  /\ UNCHANGED <<cache_vars, grf_vars, skip, resize_vars>>

(* ------------------------------------------------------------------ *)
(* SkipSpriteData                                                      *)
(* ------------------------------------------------------------------ *)

\* uint16_t num
UINT16_MODULUS == 65536

\* The values file.ReadByte() can return for the head of a chunk: a zero,
\* short and long literal lengths, and back-references of 16, 2 and 1 bytes.
ChunkHeads == {0, 1, 5, 127, 128, 247, 255}

\* int8_t i = file.ReadByte();
Int8(b) == IF b >= 128 THEN b - 256 ELSE b

\* The body of the while loop for a chunk whose head byte is b; i >> 3 is
\* the arithmetic shift.
SkipChunk(sk, b) ==
  LET i == Int8(b) IN
  IF i >= 0
  THEN LET size == IF i = 0 THEN 128 ELSE i IN
       IF size > sk.num THEN [sk EXCEPT !.result = "false", !.chunks = @ + 1]
       ELSE [sk EXCEPT !.num = (@ - size) % UINT16_MODULUS,
                       !.skipped = @ + size,
                       !.chunks = @ + 1]
  ELSE LET back == -(i \div 8) IN
       [sk EXCEPT !.num = (@ - back) % UINT16_MODULUS,
                  !.skipped = @ + back,
                  !.chunks = @ + 1]

\* SkipSpriteData(file, type, num) is entered.
SkipCalled(type, num) ==
  [type |-> type, num0 |-> num, num |-> num, skipped |-> 0, chunks |-> 0, result |-> "running"]

\* One step of SkipSpriteData: the skip of uncompressed data, or the loop
\* test and one turn of the loop.
SkipSpriteData ==
  /\ skip.result = "running"
  /\ IF (skip.type \div 2) % 2 = 1
     THEN skip' = [skip EXCEPT !.skipped = skip.num, !.num = 0, !.result = "true"]
     ELSE IF skip.num = 0
     THEN skip' = [skip EXCEPT !.result = "true"]
     ELSE /\ skip.chunks < MaxChunks
          /\ \E b \in ChunkHeads : skip' = SkipChunk(skip, b)
  /\ UNCHANGED <<cache_vars, file_vars, grf_vars, resize_vars>>

(* ------------------------------------------------------------------ *)
(* ReadGRFSpriteOffsets and GetGRFSpriteOffset                         *)
(* ------------------------------------------------------------------ *)

\* A record of the sprite section: its id (never 0, which ends the
\* section), and the colour and zoom bytes that follow its length.  The
\* record at index k of the section starts at file position k.
SectionRecords ==
  {[id |-> id, colour |-> cz[1], zoom |-> cz[2]] :
     id \in 1..MaxGrfId, cz \in {<<"none", 0>>, <<"pal", 0>>, <<"32bpp", 2>>}}

RECURSIVE SeqsUpTo(_, _)
SeqsUpTo(S, n) ==
  IF n = 0 THEN {<<>>}
  ELSE SeqsUpTo(S, n - 1) \cup {Append(q, x) : q \in {r \in SeqsUpTo(S, n - 1) : Len(r) = n - 1}, x \in S}

\* The containers ReadGRFSpriteOffsets is given.
GrfFiles ==
  {[cv |-> cv, section |-> sec, scanned |-> FALSE] : cv \in {1, 2}, sec \in SeqsUpTo(SectionRecords, MaxRecords)}

\* The bits lines 586-592 set in offset.control_flags for one record.
RecordFlags(rec) ==
  IF rec.colour = "none" THEN {}
  ELSE IF rec.zoom = 0
  THEN IF rec.colour # "pal"
       THEN {"SCCF_ALLOW_ZOOM_MIN_1X_32BPP", "SCCF_ALLOW_ZOOM_MIN_2X_32BPP"}
       ELSE {"SCCF_ALLOW_ZOOM_MIN_1X_PAL", "SCCF_ALLOW_ZOOM_MIN_2X_PAL"}
  ELSE IF rec.zoom = 2
  THEN IF rec.colour # "pal" THEN {"SCCF_ALLOW_ZOOM_MIN_2X_32BPP"} ELSE {"SCCF_ALLOW_ZOOM_MIN_2X_PAL"}
  ELSE {}

\* _grf_sprite_offsets[id] = offset
PutOffset(offsets, id, offset) ==
  [x \in (DOMAIN offsets) \cup {id} |-> IF x = id THEN offset ELSE offsets[x]]

\* The while loop over the records from index k on, and the store after it.
RECURSIVE ScanSection(_, _, _, _, _)
ScanSection(section, k, prev_id, offset, offsets) ==
  IF k > Len(section)
  THEN IF prev_id # 0 THEN PutOffset(offsets, prev_id, offset) ELSE offsets
  ELSE LET id == section[k].id
           offsets1 == IF id # prev_id THEN PutOffset(offsets, prev_id, offset) ELSE offsets
           offset1 == IF id # prev_id THEN [file_pos |-> k, control_flags |-> {}] ELSE offset
           offset2 == [offset1 EXCEPT !.control_flags = @ \cup RecordFlags(section[k])]
       IN ScanSection(section, k + 1, id, offset2, offsets1)

\* _grf_sprite_offsets after ReadGRFSpriteOffsets(file), having held
\* offsets before: the map is cleared first.
ScannedOffsets(offsets, file) ==
  IF file.cv >= 2
  THEN ScanSection(file.section, 1, 0, [file_pos |-> 0, control_flags |-> {}], <<>>)
  ELSE <<>>

GetGRFSpriteOffset(offsets, id) ==
  IF id \in DOMAIN offsets THEN offsets[id].file_pos ELSE SIZE_MAX

ReadGRFSpriteOffsets(file) ==
  /\ grf_sprite_offsets' = ScannedOffsets(grf_sprite_offsets, file)
  /\ grf_file' = [file EXCEPT !.scanned = TRUE]
  /\ UNCHANGED <<cache_vars, file_vars, skip, resize_vars>>

(* ------------------------------------------------------------------ *)
(* ResizeSprites: the dimensions of the levels of a SpriteCollection   *)
(* ------------------------------------------------------------------ *)

\* A level of the collection is named by its zoom level z and has the
\* scale 1 / 2^z: ZOOM_LVL_NORMAL is the most detailed one.
ZOOM_LVL_NORMAL == 0

ZOOM_LVL_OUT_2X == 1

ZOOM_LVL_OUT_4X == 2

\* The model has the three most detailed zoom levels.
ZOOM_LVL_END == 3

ZoomLevels == ZOOM_LVL_NORMAL..(ZOOM_LVL_END - 1)

UINT16_MAX == 65535

\* ceil(v / d) for d > 0 and any v.
CeilDiv(v, d) == -((-v) \div d)

\* A value at the level of zoom z in units of the normal level.
ScaleFraction(z, v) == v * (2 ^ z)

\* A value in units of the normal level at the level of zoom z, rounded up.
UnScaleFraction(z, v) == CeilDiv(v, 2 ^ z)

MinOf(S) == CHOOSE m \in S : \A v \in S : m <= v

MaxOf(S) == CHOOSE m \in S : \A v \in S : m >= v

\* spritecollection.begin(): the most detailed level of the collection.
FirstAvail(coll) == MinOf(DOMAIN coll)

\* spritecollection[z] = level
PutLevel(coll, z, level) ==
  [x \in (DOMAIN coll) \cup {z} |-> IF x = z THEN level ELSE coll[x]]

\* The outcome of a step on the collection.
Resized(ok, coll) == [ok |-> ok, coll |-> coll]

\* ResizeSpriteIn(spritecollection, src, tgt), tgt being more detailed:
\* on overflow the target level is erased.
ResizeSpriteIn(coll, src, tgt) ==
  LET k == 2 ^ (src - tgt)
      target == [width |-> coll[src].width * k, height |-> coll[src].height * k,
                 x_offs |-> coll[src].x_offs * k, y_offs |-> coll[src].y_offs * k]
  IN IF target.width > UINT16_MAX \/ target.height > UINT16_MAX
     THEN Resized(FALSE, [x \in (DOMAIN coll) \ {tgt} |-> coll[x]])
     ELSE Resized(TRUE, PutLevel(coll, tgt, target))

\* A reduction that rounds down.
ResizeSpriteOut_RoundDown(coll, z) ==
  IF (z - 1) \notin DOMAIN coll THEN Resized(FALSE, coll)
  ELSE Resized(TRUE, PutLevel(coll, z,
         [width |-> coll[z - 1].width \div 2, height |-> coll[z - 1].height \div 2,
          x_offs |-> coll[z - 1].x_offs \div 2, y_offs |-> coll[z - 1].y_offs \div 2]))

\* ResizeSpriteOut(spritecollection, scale) for the scale of zoom z: the
\* source is the level of twice the scale, each value is
\* ceil(source * scale / (scale * 2)).
ResizeSpriteOut(coll, z) ==
  IF (z - 1) \notin DOMAIN coll THEN Resized(FALSE, coll)
  ELSE Resized(TRUE, PutLevel(coll, z,
         [width |-> CeilDiv(coll[z - 1].width, 2), height |-> CeilDiv(coll[z - 1].height, 2),
          x_offs |-> CeilDiv(coll[z - 1].x_offs, 2), y_offs |-> CeilDiv(coll[z - 1].y_offs, 2)]))

\* Align(x, n) for a power of two n.
Align(x, n) == CeilDiv(x, n) * n

\* The first two loops of PadSprites and the alignment: the minimum top
\* left corner and the maximum dimensions, in units of the normal level.
PadBox(coll, align) ==
  LET min_xoffs == MinOf({ScaleFraction(z, coll[z].x_offs) : z \in DOMAIN coll})
      min_yoffs == MinOf({ScaleFraction(z, coll[z].y_offs) : z \in DOMAIN coll})
      max_width == MaxOf({ScaleFraction(z, (coll[z].width + coll[z].x_offs) - UnScaleFraction(z, min_xoffs)) :
                            z \in DOMAIN coll})
      max_height == MaxOf({ScaleFraction(z, (coll[z].height + coll[z].y_offs) - UnScaleFraction(z, min_yoffs)) :
                             z \in DOMAIN coll})
  IN [min_xoffs |-> min_xoffs, min_yoffs |-> min_yoffs,
      max_width |-> IF align # 0 THEN Align(max_width, align) ELSE max_width,
      max_height |-> IF align # 0 THEN Align(max_height, align) ELSE max_height]

\* Paddings on the right and at the bottom that forget the ones on the
\* left and at the top.
PadAmounts_Apart(s, z, box) ==
  [left |-> MaxOf({0, s.x_offs - UnScaleFraction(z, box.min_xoffs)}),
   top |-> MaxOf({0, s.y_offs - UnScaleFraction(z, box.min_yoffs)}),
   right |-> MaxOf({0, UnScaleFraction(z, box.max_width) - s.width}),
   bottom |-> MaxOf({0, UnScaleFraction(z, box.max_height) - s.height})]

\* pad_left, pad_top, pad_right and pad_bottom of the level s of zoom z.
PadAmounts(s, z, box) ==
  LET pad_left == MaxOf({0, s.x_offs - UnScaleFraction(z, box.min_xoffs)})
      pad_top == MaxOf({0, s.y_offs - UnScaleFraction(z, box.min_yoffs)})
  IN [left |-> pad_left, top |-> pad_top,
      right |-> MaxOf({0, (UnScaleFraction(z, box.max_width) - s.width) - pad_left}),
      bottom |-> MaxOf({0, (UnScaleFraction(z, box.max_height) - s.height) - pad_top})]

\* The size PadSingleSprite gives the level is within 16 bits.
PadFits(s, pad) ==
  /\ s.width + pad.left + pad.right <= UINT16_MAX
  /\ s.height + pad.top + pad.bottom <= UINT16_MAX

\* The level after PadSingleSprite.
PadSingleSprite(s, pad) ==
  [width |-> s.width + pad.left + pad.right, height |-> s.height + pad.top + pad.bottom,
   x_offs |-> s.x_offs - pad.left, y_offs |-> s.y_offs - pad.top]

\* PadSprites(spritecollection, encoder) for an encoder of the given
\* alignment; a level that needs no padding is left alone. ReadSprite
\* discards the collection when this fails.
PadSprites(coll, align) ==
  LET box == PadBox(coll, align)
      pad(z) == PadAmounts(coll[z], z, box)
  IN IF \E z \in DOMAIN coll : ~PadFits(coll[z], pad(z))
     THEN Resized(FALSE, coll)
     ELSE Resized(TRUE, [z \in DOMAIN coll |-> PadSingleSprite(coll[z], pad(z))])

\* "Check that size and offsets match the fully zoomed image."
MatchesNormal(coll, z) ==
  /\ coll[z].width = UnScaleFraction(z, coll[ZOOM_LVL_NORMAL].width)
  /\ coll[z].height = UnScaleFraction(z, coll[ZOOM_LVL_NORMAL].height)
  /\ coll[z].x_offs = UnScaleFraction(z, coll[ZOOM_LVL_NORMAL].x_offs)
  /\ coll[z].y_offs = UnScaleFraction(z, coll[ZOOM_LVL_NORMAL].y_offs)

\* The loop "Create other missing zoom levels" from zoom z on: "assert"
\* where a level the loader provided fails one of the four assertions.
RECURSIVE OtherLevels(_, _)
OtherLevels(coll, z) ==
  IF z = ZOOM_LVL_END THEN [result |-> "true", coll |-> coll]
  ELSE IF z \in DOMAIN coll
  THEN IF MatchesNormal(coll, z) THEN OtherLevels(coll, z + 1)
       ELSE [result |-> "assert", coll |-> coll]
  ELSE OtherLevels(ResizeSpriteOut(coll, z).coll, z + 1)

\* "Upscale to desired sprite_min_zoom if provided sprite only had zoomed
\* in versions": the results of ResizeSpriteIn are not looked at.
UpscaleToZoomMin(coll, first_avail, sprite_zoom_min) ==
  IF first_avail < sprite_zoom_min
  THEN LET c1 == IF sprite_zoom_min >= ZOOM_LVL_OUT_4X /\ ZOOM_LVL_OUT_4X \in DOMAIN coll
                 THEN ResizeSpriteIn(coll, ZOOM_LVL_OUT_4X, ZOOM_LVL_OUT_2X).coll ELSE coll
       IN IF sprite_zoom_min >= ZOOM_LVL_OUT_2X /\ ZOOM_LVL_OUT_2X \in DOMAIN c1
          THEN ResizeSpriteIn(c1, ZOOM_LVL_OUT_2X, ZOOM_LVL_NORMAL).coll ELSE c1
  ELSE coll

\* The first step of ResizeSprites: "Create a fully zoomed image if it
\* does not exist".
FullyZoomed(coll) ==
  LET first_avail == FirstAvail(coll) IN
  IF first_avail # ZOOM_LVL_NORMAL THEN ResizeSpriteIn(coll, first_avail, ZOOM_LVL_NORMAL)
  ELSE Resized(TRUE, coll)

\* ResizeSprites(spritecollection, encoder): "false", "true" or "assert",
\* and the collection it leaves.
ResizeSprites(coll, align, sprite_zoom_min) ==
  LET first_avail == FirstAvail(coll)
      full == FullyZoomed(coll)
      padded == PadSprites(full.coll, align)
      others == OtherLevels(padded.coll, ZOOM_LVL_OUT_2X)
  IN IF ~full.ok THEN [result |-> "false", coll |-> full.coll]
     ELSE IF ~padded.ok THEN [result |-> "false", coll |-> padded.coll]
     ELSE IF others.result = "assert" THEN others
     ELSE [result |-> "true", coll |-> UpscaleToZoomMin(others.coll, first_avail, sprite_zoom_min)]

\* ReadSprite hands the loaded collection to ResizeSprites.
ResizeSpritesCall(align, sprite_zoom_min) ==
  /\ resize_pc = "loaded"
  /\ LET r == ResizeSprites(spritecollection, align, sprite_zoom_min) IN
     /\ spritecollection' = r.coll
     /\ resize_pc' = r.result
  /\ UNCHANGED <<cache_vars, file_vars, grf_vars, skip>>

(* ------------------------------------------------------------------ *)
(* LoadNextSprite and DupSprite                                        *)
(* ------------------------------------------------------------------ *)

\* The type LoadNextSprite derives from the header at file position pos:
\* "false" where it returns false before touching the table.
HeaderType(pos) ==
  LET rec == FileRecords[pos] IN
  IF rec.num = 0 THEN "false"
  ELSE IF rec.grf_type = "FF" THEN (IF rec.num = 1 THEN "false" ELSE "Recolour")
  ELSE IF rec.cv >= 2 /\ rec.grf_type = "FD" THEN (IF rec.num # 4 THEN "false" ELSE "Normal")
  ELSE IF rec.cv >= 2 THEN "false"
  ELSE IF rec.skip_ok THEN "Normal" ELSE "false"

\* The file position LoadNextSprite records.
HeaderFilePos(pos) ==
  LET rec == FileRecords[pos] IN
  IF rec.cv >= 2 /\ rec.grf_type = "FD" THEN (IF rec.ref # 0 THEN rec.ref ELSE SIZE_MAX) ELSE pos

\* file.NeedsPaletteRemap(): the second file of the model uses the other palette.
NeedsPaletteRemap(file) == file = 2

\* What bytes num..256 of the buffer hold after ReadRecolourSprite: the
\* allocator resizes the vector the entry already has, which zero-fills
\* only the bytes it adds; with a palette remap bytes 1..256 are written
\* from a zeroed temporary, without one only the num bytes read.
RecolourTail(prior, num, remap) ==
  IF num >= 257 THEN "none"
  ELSE IF remap THEN "zero"
  ELSE IF prior.len = 0 THEN "zero" ELSE "stale"

\* ReadRecolourSprite through the CacheSpriteAllocator of the entry.
ReadRecolourSprite(st, index, pos) ==
  LET rec == FileRecords[pos]
      len == IF rec.num > 257 THEN RECOLOUR_SPRITE_SIZE + 1 ELSE RECOLOUR_SPRITE_SIZE
  IN Allocate(st, CacheAllocator(index, FALSE),
              [len |-> len, file |-> rec.file, pos |-> pos, as |-> "Recolour",
               scale |-> NoScale, enc |-> "raw",
               tail |-> RecolourTail(GetSpriteCache(st, index).data, rec.num, NeedsPaletteRemap(rec.file))])

\* The table after LoadNextSprite stored a sprite of the given type.
LoadedSprite(st, load_index, pos, type) ==
  LET rec == FileRecords[pos]
      st1 == AllocateSpriteCache(st, load_index)
      st2 == [st1 EXCEPT !.cache[load_index + 1].file = rec.file,
                         !.cache[load_index + 1].file_pos = HeaderFilePos(pos)]
      st3 == IF type = "Recolour" THEN ReadRecolourSprite(st2, load_index, pos) ELSE st2
  IN [st3 EXCEPT !.cache[load_index + 1].lru = 0,
                 !.cache[load_index + 1].id = pos,
                 !.cache[load_index + 1].type = type,
                 !.cache[load_index + 1].warned = FALSE,
                 !.cache[load_index + 1].control_flags =
                     IF rec.grf_type = "FD" /\ rec.ref # 0 THEN rec.flags ELSE 0]

\* LoadNextSprite(load_index, file, file_sprite_id) with the file cursor at
\* pos; the sprites of a file are numbered as they are read.
LoadNextSprite(load_index, pos) ==
  LET type0 == HeaderType(pos)
      is_mapgen == IsMapgenSpriteID(load_index)
      type == IF is_mapgen THEN "MapGen" ELSE type0
  IN
  /\ ended = "running"
  /\ loads < MaxLoads
  /\ IF type0 = "false"
     THEN UNCHANGED vars
     ELSE IF load_index >= MAX_SPRITES \/ (is_mapgen /\ type0 # "Normal")
     THEN End("UserError")
     ELSE /\ Store(LoadedSprite(State, load_index, pos, type))
          /\ loads' = loads + 1
          /\ UNCHANGED <<ended, calls>>
  /\ UNCHANGED <<file_vars, grf_vars, skip, resize_vars>>

\* The table after DupSprite(old_spr, new_spr).
DupedSprite(st, old_spr, new_spr) ==
  LET st1 == AllocateSpriteCache(st, new_spr)
      scold == GetSpriteCache(st1, old_spr)
      st2 == [st1 EXCEPT !.cache[new_spr + 1].file = scold.file,
                         !.cache[new_spr + 1].file_pos = scold.file_pos]
      st3 == ClearSpriteFractionalData(ClearSpriteData(st2, new_spr), new_spr)
  IN [st3 EXCEPT !.cache[new_spr + 1].id = scold.id,
                 !.cache[new_spr + 1].type = scold.type,
                 !.cache[new_spr + 1].warned = FALSE,
                 !.cache[new_spr + 1].control_flags = scold.control_flags]

\* DupSprite(old_spr, new_spr); reading an old_spr outside the table is
\* an out-of-range access.
DupSprite(old_spr, new_spr) ==
  /\ ended = "running"
  /\ loads < MaxLoads
  /\ IF old_spr >= Len(AllocateSpriteCache(State, new_spr).cache)
     THEN End("ub")
     ELSE /\ Store(DupedSprite(State, old_spr, new_spr))
          /\ loads' = loads + 1
          /\ UNCHANGED <<ended, calls>>
  /\ UNCHANGED <<file_vars, grf_vars, skip, resize_vars>>

(* ------------------------------------------------------------------ *)
(* GetRawSprite, IncreaseSpriteLRU and the clears                      *)
(* ------------------------------------------------------------------ *)

\* An external call of GetRawSprite.
RawSprite(st, sprite, type, scale, allocator, encoder) ==
  GetRawSprite(st, sprite, type, scale, allocator, encoder, {}, 0)

GetRawSpriteCall(sprite, type, scale, allocator, encoder) ==
  LET r == RawSprite(State, sprite, type, scale, allocator, encoder) IN
  /\ ended = "running"
  /\ calls < MaxCalls
  /\ IF IsEnded(r)
     THEN End(r.kind)
     ELSE Store(r.st) /\ calls' = calls + 1 /\ UNCHANGED <<ended, loads>>
  /\ UNCHANGED <<file_vars, grf_vars, skip, resize_vars>>

\* The states IncreaseSpriteLRU can leave with a screen depth of bpp.
IncreasedSpriteLRU(st, bpp) ==
  LET to_remove == ToRemove(st, bpp)
  IN {FixLru(st1) : st1 \in (IF to_remove > 0 THEN DeleteEntriesFromSpriteCache(st, to_remove) ELSE {st})}

IncreaseSpriteLRU(bpp) ==
  /\ ended = "running"
  /\ \E st1 \in IncreasedSpriteLRU(State, bpp) : Store(st1)
  /\ UNCHANGED <<ended, loads, calls>>
  /\ UNCHANGED <<file_vars, grf_vars, skip, resize_vars>>

\* The test each of the three clearing loops applies to an entry.
ShouldClear(sc, which) ==
  CASE which = "sprite" -> sc.type # "Recolour" /\ sc.data # NoData
    [] which = "fractional" -> sc.type # "Recolour" /\ sc.fractional_data # NoData
    [] which = "font" -> sc.type = "Font" /\ sc.data # NoData

\* for (SpriteCache &sc : _spritecache) if (...) sc.Clear...();
RECURSIVE ClearWhere(_, _, _)
ClearWhere(st, i, which) ==
  IF i = Len(st.cache) THEN st
  ELSE ClearWhere(IF ShouldClear(GetSpriteCache(st, i), which)
                  THEN (IF which = "fractional" THEN ClearSpriteFractionalData(st, i)
                        ELSE ClearSpriteData(st, i))
                  ELSE st,
                  i + 1, which)

\* A clear that drops only the font sprites.
ClearedSpriteCache_FontOnly(st) == ClearWhere(st, 0, "font")

ClearedSpriteCache(st) == ClearWhere(st, 0, "sprite")

ClearedFractionalSpriteCache(st) == ClearWhere(st, 0, "fractional")

ClearedFontSpriteCache(st) == ClearWhere(st, 0, "font")

GfxClearSpriteCache ==
  /\ ended = "running"
  /\ Store(ClearedSpriteCache(State))
  /\ UNCHANGED <<ended, loads, calls>>
  /\ UNCHANGED <<file_vars, grf_vars, skip, resize_vars>>

GfxClearFractionalSpriteCache ==
  /\ ended = "running"
  /\ Store(ClearedFractionalSpriteCache(State))
  /\ UNCHANGED <<ended, loads, calls>>
  /\ UNCHANGED <<file_vars, grf_vars, skip, resize_vars>>

GfxClearFontSpriteCache ==
  /\ ended = "running"
  /\ Store(ClearedFontSpriteCache(State))
  /\ UNCHANGED <<ended, loads, calls>>
  /\ UNCHANGED <<file_vars, grf_vars, skip, resize_vars>>

GfxInitSpriteMem ==
  /\ ended = "running"
  /\ spritecache' = <<>>
  /\ sprite_files' = <<>>
  /\ bytes_used' = 0
  /\ UNCHANGED <<lru_counter, ended, loads, calls>>
  /\ UNCHANGED <<files_made, grf_vars, skip, resize_vars>>

(* ------------------------------------------------------------------ *)
(* Specification                                                       *)
(* ------------------------------------------------------------------ *)

SpriteIds == 0..MAX_SPRITES

RequestTypes == {"Normal", "Font", "Recolour"}

\* The types a caller may pass, the map generator's included.
CallTypes == RequestTypes \cup {"MapGen"}

Scales == {NoScale, UserScale}

Allocators == {NullAllocator, SimpleAllocator}

Encoders == {"null", "E"}

ScreenDepths == {0, 8, 32}

Next ==
  \/ \E i \in SpriteIds, pos \in FilePositions : LoadNextSprite(i, pos)
  \/ \E o \in SpriteIds, n \in SpriteIds : DupSprite(o, n)
  \/ \E i \in SpriteIds, t \in CallTypes, s \in Scales, a \in Allocators, e \in Encoders :
       GetRawSpriteCall(i, t, s, a, e)
  \/ \E bpp \in ScreenDepths : IncreaseSpriteLRU(bpp)
  \/ GfxClearSpriteCache
  \/ GfxClearFractionalSpriteCache
  \/ GfxClearFontSpriteCache
  \/ GfxInitSpriteMem

Spec == Init /\ [][Next]_vars

RECURSIVE SumSeq(_)
SumSeq(q) == IF q = <<>> THEN 0 ELSE Head(q) + SumSeq(Tail(q))

\* A session that is well under way: sprite 0, SPR_IMG_QUERY and
\* PALETTE_TO_DARK_BLUE have been loaded by LoadNextSprite after a
\* GfxInitSpriteMem, which clears the table and leaves _sprite_lru_counter
\* wherever the accesses before it brought it.
LoadedBaseSet ==
  LoadedSprite(LoadedSprite(LoadedSprite([cache |-> <<>>, used |-> 0, ctr |-> 0],
                                         0, 2, "Normal"),
                            SPR_IMG_QUERY, 2, "Normal"),
               PALETTE_TO_DARK_BLUE, 3, "Recolour")

InitLru ==
  /\ spritecache = LoadedBaseSet.cache
  /\ bytes_used = LoadedBaseSet.used
  /\ lru_counter \in 0..(LruModulus - 1)
  /\ ended = "running"
  /\ loads = MaxLoads
  /\ calls = 0
  /\ FilesIdle /\ GrfIdle /\ SkipIdle /\ ResizeIdle

\* The steps of the running game that touch the LRU stamps: sprites are
\* drawn through the cache, and IncreaseSpriteLRU and the cache clears run
\* in between.
NextLru ==
  \/ \E i \in SpriteIds, t \in CallTypes, s \in Scales :
       GetRawSpriteCall(i, t, s, NullAllocator, "null")
  \/ \E bpp \in ScreenDepths : IncreaseSpriteLRU(bpp)
  \/ GfxClearSpriteCache
  \/ GfxClearFractionalSpriteCache

SpecLru == InitLru /\ [][NextLru]_vars

\* A session in which the base set is loaded and a NewGRF adds or replaces
\* one more sprite while sprites are requested.
InitFallback ==
  /\ spritecache = LoadedBaseSet.cache
  /\ bytes_used = LoadedBaseSet.used
  /\ lru_counter = 0
  /\ ended = "running"
  /\ loads = MaxLoads - 1
  /\ calls = 0
  /\ FilesIdle /\ GrfIdle /\ SkipIdle /\ ResizeIdle

NextFallback ==
  \/ \E i \in SpriteIds, pos \in FilePositions : LoadNextSprite(i, pos)
  \/ \E o \in SpriteIds, n \in SpriteIds : DupSprite(o, n)
  \/ \E i \in SpriteIds, t \in CallTypes, s \in Scales, a \in Allocators, e \in Encoders :
       GetRawSpriteCall(i, t, s, a, e)

SpecFallback == InitFallback /\ [][NextFallback]_vars

\* An entry as LoadNextSprite and a GetRawSprite through the cache leave
\* it: the sprite at file position pos, drawn when the access counter
\* stood at lru.
DrawnEntry(pos, lru) ==
  LET sc == GetSpriteCache(LoadedSprite([cache |-> <<>>, used |-> 0, ctr |-> 0], 0, pos, "Normal"), 0)
  IN [sc EXCEPT !.data = Encode(sc.file, sc.file_pos, "Normal", NoScale, "blitter"), !.lru = lru]

\* What a table slot can hold when IncreaseSpriteLRU runs: nothing, a
\* recolour table, a sprite not drawn yet, or a drawn sprite of either
\* size with any stamp.
TableEntries ==
  {NewEntry,
   GetSpriteCache(LoadedBaseSet, PALETTE_TO_DARK_BLUE),
   GetSpriteCache(LoadedBaseSet, SPR_IMG_QUERY)}
    \cup {DrawnEntry(pos, lru) : pos \in {2, 6}, lru \in 0..(LruModulus - 1)}

\* The tables of MAX_SPRITES slots in any order of ids, at the moment
\* IncreaseSpriteLRU is called.
InitEvict ==
  /\ spritecache \in [1..MAX_SPRITES -> TableEntries]
  /\ bytes_used = SumSeq([k \in 1..MAX_SPRITES |-> spritecache[k].data.len])
  /\ lru_counter = LruModulus - 1
  /\ ended = "running"
  /\ loads = MaxLoads
  /\ calls = MaxCalls
  /\ FilesIdle /\ GrfIdle /\ SkipIdle /\ ResizeIdle

NextEvict == \E bpp \in ScreenDepths : IncreaseSpriteLRU(bpp)

SpecEvict == InitEvict /\ [][NextEvict]_vars

\* Files are opened and their sprites loaded, between clears and resets
\* of the sprite cache.
NextFiles ==
  \/ \E filename \in Filenames : OpenCachedSpriteFile(filename)
  \/ \E i \in 0..1, pos \in {2, 3} : LoadNextSprite(i, pos)
  \/ GfxClearSpriteCache
  \/ GfxInitSpriteMem

SpecFiles == Init /\ [][NextFiles]_vars

\* SkipSpriteData is called on the inline data of a sprite, compressed
\* (type 0) or not (type 2), with up to MaxSkip bytes to skip.
InitSkip ==
  /\ spritecache = <<>>
  /\ bytes_used = 0
  /\ lru_counter = 0
  /\ ended = "running"
  /\ loads = 0
  /\ calls = 0
  /\ FilesIdle /\ GrfIdle /\ ResizeIdle
  /\ skip \in {SkipCalled(type, num) : type \in {0, 2}, num \in 0..MaxSkip}

NextSkip == SkipSpriteData

SpecSkip == InitSkip /\ [][NextSkip]_vars

\* The sprite sections of the NewGRFs are scanned one after the other.
NextOffsets == \E file \in GrfFiles : ReadGRFSpriteOffsets(file)

SpecOffsets == Init /\ [][NextOffsets]_vars

\* The widths and heights, and the offsets, the loader provides.
LoadedSizes == {1, 3, 40000}

LoadedOffsets == {-3, 0, 2}

LoadedLevels ==
  {[width |-> w, height |-> h, x_offs |-> x, y_offs |-> y] :
     w \in LoadedSizes, h \in {1, 2}, x \in LoadedOffsets, y \in {-1, 0}}

\* GetSpriteAlignment() of the encoders.
SpriteAlignments == {0, 4}

\* The loader has filled the collection with any non-empty set of levels.
InitResize ==
  /\ spritecache = <<>>
  /\ bytes_used = 0
  /\ lru_counter = 0
  /\ ended = "running"
  /\ loads = 0
  /\ calls = 0
  /\ FilesIdle /\ GrfIdle /\ SkipIdle
  /\ \E L \in (SUBSET ZoomLevels) \ {{}} : spritecollection \in [L -> LoadedLevels]
  /\ resize_pc = "loaded"

NextResize ==
  \E align \in SpriteAlignments, sprite_zoom_min \in ZoomLevels : ResizeSpritesCall(align, sprite_zoom_min)

SpecResize == InitResize /\ [][NextResize]_vars

(* ------------------------------------------------------------------ *)
(* Properties                                                          *)
(* ------------------------------------------------------------------ *)

Slots == 0..(Len(spritecache) - 1)

\* Every argument DeleteEntriesFromSpriteCache can get from IncreaseSpriteLRU
\* in the current state and beyond: 1 up to all bytes plus the margin.
RemoveRequests == 1..(bytes_used + EvictMargin)

\* Entry e lost its data between st and post.
Cleared(st, post, e) ==
  GetSpriteCache(st, e).data # NoData /\ GetSpriteCache(post, e).data = NoData

\* Entry s was an eviction candidate in st and keeps its data in post.
Survived(st, post, s) ==
  IsCandidate(GetSpriteCache(st, s)) /\ GetSpriteCache(post, s).data # NoData

\* C1: eviction is LRU-ordered.  After DeleteEntriesFromSpriteCache(K), for
\* every K >= 1, every entry e the call cleared and every eviction-eligible
\* entry s that keeps its data satisfy lru(s) >= lru(e).
C1_EvictionLruOrdered ==
  \A K \in RemoveRequests : \A post \in DeleteEntriesFromSpriteCache(State, K) :
    \A e \in Slots, s \in Slots :
      Cleared(State, post, e) /\ Survived(State, post, s)
        => GetSpriteCache(State, s).lru >= GetSpriteCache(State, e).lru

\* A state in which IncreaseSpriteLRU evicts one entry and keeps another
\* eligible one.
C1_Witness ==
  \E bpp \in ScreenDepths :
    /\ ToRemove(State, bpp) > 0
    /\ \E post \in DeleteEntriesFromSpriteCache(State, ToRemove(State, bpp)) :
         \E e \in Slots, s \in Slots :
           /\ Cleared(State, post, e) /\ Survived(State, post, s)
           /\ GetSpriteCache(State, s).lru > GetSpriteCache(State, e).lru

\* The bytes held by the eviction-eligible entries.
EligibleBytes(st) ==
  SumSeq([k \in 1..Len(st.cache) |-> IF IsCandidate(st.cache[k]) THEN st.cache[k].data.len ELSE 0])

\* C2: when usage exceeds the target and the eligible entries hold at least
\* the requested amount, IncreaseSpriteLRU lowers _spritecache_bytes_used by
\* at least the to_remove it passes to DeleteEntriesFromSpriteCache.
C2_FreesRequested ==
  \A bpp \in ScreenDepths :
    (ToRemove(State, bpp) > 0 /\ EligibleBytes(State) >= ToRemove(State, bpp))
      => \A post \in IncreasedSpriteLRU(State, bpp) :
           bytes_used - post.used >= ToRemove(State, bpp)

\* The bytes the table holds.
HeldBytes(st) ==
  SumSeq([k \in 1..Len(st.cache) |-> st.cache[k].data.len + st.cache[k].fractional_data.len])

\* C3: byte accounting is exact.  In every reachable state
\* _spritecache_bytes_used is the sum over all entries of data.size() +
\* fractional_data.size().
C3_ByteAccountingExact == bytes_used = HeldBytes(State)

\* A state in which an entry whose own sprite cannot be decoded holds the
\* bytes of the fallback sprite, stored through its CacheSpriteAllocator.
C3_Witness ==
  \E i \in Slots :
    LET sc == GetSpriteCache(State, i) IN
    /\ i # SPR_IMG_QUERY /\ sc.file_pos = SIZE_MAX /\ sc.lru > 0
    /\ SpriteExists(State, SPR_IMG_QUERY)
    /\ sc.data # NoData
    /\ sc.data.pos = GetSpriteCache(State, SPR_IMG_QUERY).file_pos
    /\ bytes_used > 0

\* The sprite ids a caller may pass: the table's slots and one beyond.
RequestIds == 0..(MAX_SPRITES + 1)

\* Every Recolour entry of the current state has the same type and data in post.
RecolourKept(post) ==
  \A i \in Slots :
    GetSpriteCache(State, i).type = "Recolour"
      => /\ GetSpriteCache(post, i).type = "Recolour"
         /\ GetSpriteCache(post, i).data = GetSpriteCache(State, i).data

\* C4: Recolour entries are never evicted.  Neither GetRawSprite nor
\* IncreaseSpriteLRU nor GfxClearSpriteCache nor GfxClearFontSpriteCache
\* empties or alters the data of an entry whose type is Recolour.
C4_RecolourNeverEvicted ==
  /\ \A i \in RequestIds, t \in RequestTypes, s \in Scales, a \in Allocators, e \in Encoders :
       LET r == RawSprite(State, i, t, s, a, e) IN ~IsEnded(r) => RecolourKept(r.st)
  /\ \A bpp \in ScreenDepths : \A post \in IncreasedSpriteLRU(State, bpp) : RecolourKept(post)
  /\ RecolourKept(ClearedSpriteCache(State))
  /\ RecolourKept(ClearedFontSpriteCache(State))

\* A state over its budget in which IncreaseSpriteLRU evicts an entry while
\* a Recolour entry holds data.
C4_Witness ==
  \E bpp \in ScreenDepths : \E post \in IncreasedSpriteLRU(State, bpp) :
    /\ \E e \in Slots : Cleared(State, post, e)
    /\ \E i \in Slots : /\ GetSpriteCache(State, i).type = "Recolour"
                        /\ GetSpriteCache(post, i).data # NoData

\* What a caller observes of a call: how it ended, and the bytes and the
\* cache it left when it returned.
Outcome(r) == IF IsEnded(r) THEN <<r.kind>> ELSE <<r.kind, r.bytes, r.st>>

\* C5: fallback substitution.  Where SPR_IMG_QUERY exists, GetRawSprite of
\* an id that does not exist returns the same bytes as GetRawSprite of
\* SPR_IMG_QUERY with the same type, and leaves the same cache.
C5_FallbackSubstitution ==
  \A i \in RequestIds, t \in RequestTypes, s \in Scales, a \in Allocators, e \in Encoders :
    (~SpriteExists(State, i) /\ SpriteExists(State, SPR_IMG_QUERY))
      => Outcome(RawSprite(State, i, t, s, a, e))
           = Outcome(RawSprite(State, SPR_IMG_QUERY, t, s, a, e))

\* A state in which a request for an id that does not exist returns the
\* bytes of the question mark.
C5_Witness ==
  \E i \in RequestIds :
    /\ ~SpriteExists(State, i) /\ SpriteExists(State, SPR_IMG_QUERY)
    /\ RawSprite(State, i, "Normal", NoScale, NullAllocator, "null").kind = "bytes"
    /\ RawSprite(State, i, "Normal", NoScale, NullAllocator, "null").bytes.pos
         = GetSpriteCache(State, SPR_IMG_QUERY).file_pos

\* The entry has a file and its sprite decodes and can be resized.
Loadable(sc) ==
  /\ sc.file # 0 /\ LoadSprite(sc.file, sc.file_pos)
  /\ <<sc.file, sc.file_pos>> \notin Oversized

\* C6: type promotion.  GetRawSprite(id, Font) on an existing (loadable)
\* entry stored as Normal, data resident or not, makes the stored type Font
\* and returns the entry's sprite derived as a Font sprite, with no fallback
\* and no fatal error.
C6_TypePromotion ==
  \A i \in Slots :
    LET sc == GetSpriteCache(State, i)
        r == RawSprite(State, i, "Font", NoScale, NullAllocator, "null")
    IN (SpriteExists(State, i) /\ sc.type = "Normal" /\ Loadable(sc))
         => /\ r.kind = "bytes"
            /\ GetSpriteCache(r.st, i).type = "Font"
            /\ r.bytes = Encode(sc.file, sc.file_pos, "Font", FontScale, "blitter")

\* The request (id, T) meets an existing entry of another stored type, and
\* is not a Font request on a Normal entry.
IsMismatch(i, t) ==
  /\ SpriteExists(State, i)
  /\ GetSpriteCache(State, i).type # t
  /\ ~(t = "Font" /\ GetSpriteCache(State, i).type = "Normal")

\* The fallback entry is stored under another type than it is requested
\* as, or (the question mark) cannot be loaded.
FallbackBroken(t) ==
  LET fb == IF t = "Recolour" THEN PALETTE_TO_DARK_BLUE ELSE SPR_IMG_QUERY
  IN /\ fb < Len(State.cache)
     /\ \/ GetSpriteCache(State, fb).type # (IF t = "Recolour" THEN "Recolour" ELSE "Normal")
        \/ (t # "Recolour" /\ ~Loadable(GetSpriteCache(State, fb)))

\* The mismatched request (i, t) is answered as the request for the
\* fallback sprite, made with the same allocator once the entry is marked
\* warned, and leaves the entry's own data alone.
AnsweredByFallback(i, t, s, a, e) ==
  LET r == RawSprite(State, i, t, s, a, e)
      marked == [State EXCEPT !.cache[i + 1].warned = TRUE]
      f == IF t = "Recolour"
           THEN RawSprite(marked, PALETTE_TO_DARK_BLUE, "Recolour", NoScale, a, "null")
           ELSE RawSprite(marked, SPR_IMG_QUERY, "Normal", NoScale, a, "null")
  IN /\ (i # (IF t = "Recolour" THEN PALETTE_TO_DARK_BLUE ELSE SPR_IMG_QUERY))
          => Outcome(r) = Outcome(f)
     /\ ~IsEnded(r)
          => /\ GetSpriteCache(r.st, i).data = GetSpriteCache(State, i).data
             /\ GetSpriteCache(r.st, i).fractional_data = GetSpriteCache(State, i).fractional_data

\* C7: mismatch recovery.  A GetRawSprite(id, T) whose T differs from the
\* entry's stored type, other than Font on a Normal entry, never loads or
\* returns the entry's own data: it is answered as SPR_IMG_QUERY requested
\* as Normal when T is Normal or Font, and as PALETTE_TO_DARK_BLUE requested
\* as Recolour when T is Recolour.  It raises the fatal error only when id
\* is itself that fallback id, or the fallback entry is stored under
\* another type or cannot be loaded.
C7_MismatchRecovery ==
  \A i \in Slots, t \in RequestTypes, s \in Scales, a \in Allocators, e \in Encoders :
    IsMismatch(i, t)
      => /\ AnsweredByFallback(i, t, s, a, e)
         /\ RawSprite(State, i, t, s, a, e).kind = "UserError"
              => \/ i = (IF t = "Recolour" THEN PALETTE_TO_DARK_BLUE ELSE SPR_IMG_QUERY)
                 \/ FallbackBroken(t)

\* A Recolour request on an entry stored under another type returns the
\* remap table of PALETTE_TO_DARK_BLUE.
C7_Witness ==
  \E i \in Slots :
    /\ IsMismatch(i, "Recolour") /\ i # PALETTE_TO_DARK_BLUE
    /\ PALETTE_TO_DARK_BLUE < Len(State.cache)
    /\ GetSpriteCache(State, PALETTE_TO_DARK_BLUE).type = "Recolour"
    /\ LET r == RawSprite(State, i, "Recolour", NoScale, NullAllocator, "null")
       IN /\ r.kind = "bytes" /\ r.bytes # NoData
          /\ r.bytes = GetSpriteCache(State, PALETTE_TO_DARK_BLUE).data

\* C7 as the specification words it: the fatal error is raised only when
\* id is itself the fallback id.
C7_FatalOnlyForFallbackId ==
  \A i \in Slots, t \in RequestTypes, s \in Scales, a \in Allocators, e \in Encoders :
    IsMismatch(i, t)
      => /\ AnsweredByFallback(i, t, s, a, e)
         /\ RawSprite(State, i, t, s, a, e).kind = "UserError"
              => i = (IF t = "Recolour" THEN PALETTE_TO_DARK_BLUE ELSE SPR_IMG_QUERY)

\* C8: every GetRawSprite call ends after a bounded number of nested
\* calls, with bytes or with the fatal UserError; it never recurses
\* without bound.
C8_Terminates ==
  \A i \in RequestIds, t \in RequestTypes, s \in Scales, a \in Allocators, e \in Encoders :
    RawSprite(State, i, t, s, a, e).kind # "recursion"

\* The parts of the cache a bypassing call must leave alone.
Accounting(st) ==
  [used |-> st.used, ctr |-> st.ctr,
   entries |-> [k \in 1..Len(st.cache) |->
                  <<st.cache[k].data, st.cache[k].fractional_data, st.cache[k].lru>>]]

\* C9: cache bypass.  A GetRawSprite call with an allocator or an encoder
\* changes no entry's data, fractional_data or lru, nor
\* _spritecache_bytes_used, nor _sprite_lru_counter.
C9_CacheBypass ==
  \A i \in RequestIds, t \in RequestTypes, s \in Scales, a \in Allocators, e \in Encoders :
    LET r == RawSprite(State, i, t, s, a, e) IN
    ((a # NullAllocator \/ e # "null") /\ ~IsEnded(r)) => Accounting(r.st) = Accounting(State)

\* C10: idempotent re-load.  If GetRawSprite(id, T) returns bytes b1, then
\* after GfxClearSpriteCache the same request returns b1 again.
C10_IdempotentReload ==
  \A i \in Slots, t \in RequestTypes :
    LET r1 == RawSprite(State, i, t, NoScale, NullAllocator, "null")
        r2 == RawSprite(ClearedSpriteCache(r1.st), i, t, NoScale, NullAllocator, "null")
    IN (SpriteExists(State, i) /\ r1.kind = "bytes")
         => (r2.kind = "bytes" /\ r2.bytes = r1.bytes)

\* The entry has encoded sprite data in its buffer.
Resident(st, i) == GetSpriteCache(st, i).data # NoData

\* C11: LRU stamps are fresh and strictly increasing.  Every GetRawSprite
\* served through the cache (no allocator, no encoder, matching type)
\* stamps the entry with a value strictly greater than the lru of every
\* other entry with resident data, and _sprite_lru_counter moves up: it
\* never wraps around past its maximum.
C11_FreshStamps ==
  \A i \in Slots, s \in Scales :
    LET r == RawSprite(State, i, GetSpriteCache(State, i).type, s, NullAllocator, "null")
    IN (SpriteExists(State, i) /\ ~IsEnded(r))
         => /\ r.st.ctr > lru_counter
            /\ \A j \in Slots \ {i} :
                 Resident(r.st, j) => GetSpriteCache(r.st, i).lru > GetSpriteCache(r.st, j).lru

\* Entries a and b have resident data and nonzero stamps, a's the smaller.
OlderThan(st, a, b) ==
  /\ Resident(st, a) /\ Resident(st, b)
  /\ GetSpriteCache(st, a).lru > 0
  /\ GetSpriteCache(st, a).lru < GetSpriteCache(st, b).lru

HasLocation(id) ==
  /\ id < Len(spritecache)
  /\ (GetSpriteCache(State, id).file_pos # 0 \/ GetSpriteCache(State, id).file # 0)

\* C13: SpriteExists(id) is true iff id is within the allocated table and
\* the entry has a nonzero file_pos or a non-null file, except that
\* SpriteExists(0) is true in every state whose table is not empty; with
\* an empty table no id exists, 0 included.
C13_SpriteExists ==
  \A id \in RequestIds :
    SpriteExists(State, id) <=> (HasLocation(id) \/ (id = 0 /\ Len(spritecache) > 0))

\* A table whose entry 0 was never loaded, and sprite 0 exists.
C13_Witness ==
  /\ Len(spritecache) > 0
  /\ ~HasLocation(0)
  /\ SpriteExists(State, 0)
  /\ \E id \in Slots : id # 0 /\ ~SpriteExists(State, id)

\* C13 as the specification words it: SpriteExists(0) is true in every
\* state, also before any sprite was loaded and after GfxInitSpriteMem.
C13_ZeroAlwaysExists ==
  \A id \in RequestIds : SpriteExists(State, id) <=> (HasLocation(id) \/ id = 0)

\* What an entry records about where its sprite comes from.
Metadata(sc) == <<sc.file, sc.file_pos, sc.id, sc.type, sc.control_flags>>

\* The table of post has the size and the metadata of the current one.
MetadataKept(post) ==
  /\ Len(post.cache) = Len(spritecache)
  /\ \A i \in Slots : Metadata(GetSpriteCache(post, i)) = Metadata(GetSpriteCache(State, i))

\* C14: GfxClearSpriteCache drops the encoded buffers and keeps all
\* metadata.  After the call every entry whose type is not Recolour has
\* empty data, every Recolour entry has the data it had, and the table size
\* and every entry's file, file_pos, id, type and control_flags are as
\* before the call.
C14_ClearKeepsMetadata ==
  LET post == ClearedSpriteCache(State) IN
  /\ MetadataKept(post)
  /\ \A i \in Slots :
       IF GetSpriteCache(State, i).type = "Recolour"
       THEN GetSpriteCache(post, i).data = GetSpriteCache(State, i).data
       ELSE GetSpriteCache(post, i).data = NoData

\* A table with a resident Normal sprite, loaded from a file, and a
\* recolour table: the clear empties the first and keeps the second.
C14_Witness ==
  LET post == ClearedSpriteCache(State) IN
  \E i \in Slots, j \in Slots :
    /\ GetSpriteCache(State, i).type = "Normal" /\ Resident(State, i)
    /\ GetSpriteCache(State, i).file # 0 /\ ~Resident(post, i)
    /\ GetSpriteCache(State, j).type = "Recolour" /\ Resident(post, j)

\* C14 as the specification words it: after the call every table entry
\* has empty data.
C14_ClearEmptiesEveryEntry ==
  LET post == ClearedSpriteCache(State) IN
  /\ MetadataKept(post)
  /\ \A i \in Slots : GetSpriteCache(post, i).data = NoData

\* C15: after DupSprite(old, new) with old an existing entry and
\* old # new, entry new has the file, file_pos, id, type and control_flags
\* of old, empty data and warned = false, and a fresh LRU stamp (the 0 of a
\* newly loaded entry or the current counter value, not what an earlier
\* occupant of the slot left); entry old is unchanged.
C15_DupSpriteFresh ==
  \A old \in Slots, new \in 0..(MAX_SPRITES - 1) :
    (SpriteExists(State, old) /\ old # new)
      => LET post == DupedSprite(State, old, new)
             scnew == GetSpriteCache(post, new)
         IN /\ Metadata(scnew) = Metadata(GetSpriteCache(State, old))
            /\ scnew.data = NoData /\ ~scnew.warned
            /\ scnew.lru \in {0, post.ctr}
            /\ GetSpriteCache(post, old) = GetSpriteCache(State, old)

\* C16: the sprite table never holds more than MAX_SPRITES entries: in
\* every state of a running process _spritecache.size() <= MAX_SPRITES.
C16_TableBounded == ended = "running" => Len(spritecache) <= MAX_SPRITES

\* C17: the MapGen type is tied to the reserved id range.  An existing
\* entry has type MapGen iff its table index satisfies IsMapgenSpriteID, so
\* the assertion of ReadSprite holds on every call.
C17_MapGenRange ==
  \A i \in Slots :
    SpriteExists(State, i)
      => ((GetSpriteCache(State, i).type = "MapGen") <=> IsMapgenSpriteID(i))

\* SPR_IMG_QUERY is loaded as a Normal sprite that decodes and resizes.
QueryHealthy ==
  /\ SpriteExists(State, SPR_IMG_QUERY)
  /\ GetSpriteCache(State, SPR_IMG_QUERY).type = "Normal"
  /\ Loadable(GetSpriteCache(State, SPR_IMG_QUERY))

\* C18: overflow rejection.  Whenever a resize step of a sprite's load
\* would produce a width or height above 65535, in the zoom-level resize
\* and in the single-scale fractional resize alike, the load is abandoned
\* and the caller receives the bytes of SPR_IMG_QUERY; the process does not
\* crash.
C18_OverflowRejected ==
  \A i \in Slots, s \in Scales :
    LET sc == GetSpriteCache(State, i)
        r == RawSprite(State, i, sc.type, s, NullAllocator, "null")
    IN (/\ SpriteExists(State, i) /\ i # SPR_IMG_QUERY /\ QueryHealthy
        /\ sc.type \in {"Normal", "Font"}
        /\ <<sc.file, sc.file_pos>> \in Oversized
        /\ ~(IF s = NoScale THEN Resident(State, i) ELSE sc.fractional_data # NoData))
         => /\ r.kind = "bytes"
            /\ r.bytes.file = GetSpriteCache(State, SPR_IMG_QUERY).file
            /\ r.bytes.pos = GetSpriteCache(State, SPR_IMG_QUERY).file_pos

\* C19: the fallback sprite stays Normal.  If SPR_IMG_QUERY is stored with
\* type Normal, then after a GetRawSprite call (any id, existing or not,
\* any requested type) its stored type is still Normal, and a GetRawSprite
\* of a non-existent id with type Normal made next still returns bytes
\* instead of the fatal error.
C19_FallbackStaysNormal ==
  \A i \in RequestIds, t \in RequestTypes, s \in Scales, a \in Allocators, e \in Encoders :
    LET r == RawSprite(State, i, t, s, a, e) IN
    (QueryHealthy /\ ~IsEnded(r))
      => /\ GetSpriteCache(r.st, SPR_IMG_QUERY).type = "Normal"
         /\ \A n \in RequestIds :
              ~SpriteExists(r.st, n)
                => RawSprite(r.st, n, "Normal", NoScale, NullAllocator, "null").kind = "bytes"

\* The warned flags of the table, entry by entry.
WarnedFlags(st) == [k \in 1..Len(st.cache) |-> st.cache[k].warned]

\* After the mismatching request (i, t) returned in state post, every
\* mismatching request for the same entry is logged at level 6 only, and
\* the flags of all other entries are as they were.
OneShotAfter(i, post) ==
  LET n == ResolveSprite(State, i) IN
  /\ \A t2 \in RequestTypes : WarningLevel(post, n, t2) \in {-1, 6}
  /\ \A j \in Slots \ {n} : GetSpriteCache(post, j).warned = GetSpriteCache(State, j).warned

\* C20: mismatch warnings are one-shot per table entry.  A mismatching
\* request (other than Font on Normal) is logged at level 0 iff the entry
\* the id resolves to (SPR_IMG_QUERY for every non-existent id) has had no
\* mismatching request since LoadNextSprite or DupSprite created it, and
\* at level 6 otherwise; a mismatch on one entry never suppresses the first
\* warning of another entry.
C20_WarningsOneShot ==
  /\ \A i \in RequestIds, t \in RequestTypes, a \in Allocators :
       LET r == RawSprite(State, i, t, NoScale, a, "null") IN
       ~IsEnded(r)
         => IF WarningLevel(State, i, t) >= 0
            THEN OneShotAfter(i, r.st)
            ELSE WarnedFlags(r.st) = WarnedFlags(State)
  /\ \A bpp \in ScreenDepths : \A post \in IncreasedSpriteLRU(State, bpp) :
       WarnedFlags(post) = WarnedFlags(State)
  /\ WarnedFlags(ClearedSpriteCache(State)) = WarnedFlags(State)
  /\ \A n \in 0..(MAX_SPRITES - 1), pos \in FilePositions :
       HeaderType(pos) \in {"Normal", "Recolour"}
         => ~GetSpriteCache(LoadedSprite(State, n, pos, HeaderType(pos)), n).warned
  /\ \A o \in Slots, n \in 0..(MAX_SPRITES - 1) :
       ~GetSpriteCache(DupedSprite(State, o, n), n).warned

\* An entry that was warned about already, next to one whose first
\* mismatch is still to be logged at level 0.
C20_Witness ==
  \E i \in Slots, j \in Slots, t \in RequestTypes, t2 \in RequestTypes :
    /\ i # j /\ SpriteExists(State, i) /\ SpriteExists(State, j)
    /\ WarningLevel(State, i, t) = 6
    /\ WarningLevel(State, j, t2) = 0
    /\ ~IsEnded(RawSprite(State, j, t2, NoScale, NullAllocator, "null"))

\* C20 as the specification words it: per requested id, a mismatch on one
\* id never suppresses the first warning of another id.
C20_OneShotPerRequestedId ==
  \A i \in RequestIds, j \in RequestIds, t \in RequestTypes, t2 \in RequestTypes :
    LET r == RawSprite(State, i, t, NoScale, NullAllocator, "null") IN
    (i # j /\ WarningLevel(State, i, t) >= 0 /\ ~IsEnded(r) /\ WarningLevel(State, j, t2) = 0)
      => WarningLevel(r.st, j, t2) = 0

\* SPR_IMG_QUERY and PALETTE_TO_DARK_BLUE exist with types Normal and
\* Recolour and are loadable.
FallbacksHealthy ==
  /\ QueryHealthy
  /\ SpriteExists(State, PALETTE_TO_DARK_BLUE)
  /\ GetSpriteCache(State, PALETTE_TO_DARK_BLUE).type = "Recolour"
  /\ Resident(State, PALETTE_TO_DARK_BLUE)

\* C21: fallback recursion depth is at most 2.  With healthy fallback
\* sprites no external GetRawSprite call has more than 2 GetRawSprite
\* activations nested on the stack, on every path through type promotion,
\* mismatch fallback and load-failure fallback.
C21_DepthAtMostTwo ==
  FallbacksHealthy
    => \A i \in RequestIds, t \in RequestTypes, s \in Scales, a \in Allocators, e \in Encoders :
         RawSprite(State, i, t, s, a, e).depth <= 2

\* The entries a candidate vector names.
ClearedIds(c) == {c[k].id : k \in 1..Len(c)}

\* C23: eviction is minimal.  When DeleteEntriesFromSpriteCache(K) stops
\* with enough eligible bytes available, the bytes it frees minus the size
\* of a cleared entry with the highest lru are fewer than K.
C23_EvictionMinimal ==
  \A K \in RemoveRequests :
    EligibleBytes(State) >= K
      => \A c \in EvictionCandidates(State, K) :
           LET post == ClearCandidates(State, c)
               top == {i \in ClearedIds(c) :
                         \A j \in ClearedIds(c) : GetSpriteCache(State, j).lru <= GetSpriteCache(State, i).lru}
           IN \E i \in top : (bytes_used - post.used) - GetSpriteCache(State, i).data.len < K

\* A table from which DeleteEntriesFromSpriteCache clears two entries or
\* more with distinct stamps, frees what was asked and spares an eligible
\* entry.
C23_Witness ==
  \E K \in RemoveRequests :
    /\ EligibleBytes(State) >= K
    /\ \E c \in EvictionCandidates(State, K) :
         LET post == ClearCandidates(State, c) IN
         /\ Cardinality(ClearedIds(c)) >= 2
         /\ \A i \in ClearedIds(c), j \in ClearedIds(c) :
              i # j => GetSpriteCache(State, i).lru # GetSpriteCache(State, j).lru
         /\ bytes_used - post.used >= K
         /\ \E s \in Slots : Survived(State, post, s)

\* The objects of the pool.
PoolHandles(files) == {files[k].handle : k \in 1..Len(files)}

\* No two files of the pool have the same name, and opening a name the
\* pool has returns the object the pool has for it and adds nothing.
Deduplicated ==
  /\ \A j \in 1..Len(sprite_files), k \in 1..Len(sprite_files) :
       sprite_files[j].filename = sprite_files[k].filename => j = k
  /\ \A k \in 1..Len(sprite_files) :
       /\ OpenedSpriteFiles(sprite_files, files_made, sprite_files[k].filename) = sprite_files
       /\ OpenedHandle(sprite_files, files_made, sprite_files[k].filename) = sprite_files[k].handle

\* C22: SpriteFile handles are stable and deduplicated by filename until
\* the next full reset.  The pool never holds two files of one name and an
\* open of a pooled name returns the pooled object; every step other than
\* GfxInitSpriteMem keeps every object of the pool, and GfxInitSpriteMem
\* empties the pool together with the sprite table.
C22_HandlesStableUntilReset ==
  /\ []Deduplicated
  /\ [][\/ PoolHandles(sprite_files) \subseteq PoolHandles(sprite_files')
        \/ (sprite_files' = <<>> /\ spritecache' = <<>>)]_vars

\* Both names are pooled, one of them reopened after a reset, and sprites
\* have been loaded since.
C22_Witness ==
  /\ Len(sprite_files) = 2
  /\ files_made = MaxFiles
  /\ spritecache # <<>>
  /\ \E filename \in Filenames :
       OpenedHandle(sprite_files, files_made, filename) \in PoolHandles(sprite_files)

\* C22 as the specification words it: a handle once returned is in the
\* pool in every later state, GfxInitSpriteMem included.
C22_HandlesStableForever ==
  /\ []Deduplicated
  /\ [][PoolHandles(sprite_files) \subseteq PoolHandles(sprite_files')]_vars

\* The slot is fresh or holds a recolour table.
FreshOrRecolour(n) ==
  \/ n >= Len(spritecache)
  \/ GetSpriteCache(State, n).data = NoData
  \/ GetSpriteCache(State, n).data.as = "Recolour"

\* C27: short recolour sprites are zero-padded.  After LoadNextSprite loads
\* a recolour sprite of num < 257 bytes from a file that needs no palette
\* remap into a slot that is fresh or holds a recolour table, the entry's
\* data has at least 257 bytes and bytes num..256 are all zero.
C27_ShortRecolourZeroPadded ==
  \A n \in 0..(MAX_SPRITES - 1), pos \in FilePositions :
    (/\ HeaderType(pos) = "Recolour" /\ FileRecords[pos].num < 257
     /\ ~NeedsPaletteRemap(FileRecords[pos].file)
     /\ ~IsMapgenSpriteID(n) /\ FreshOrRecolour(n))
      => LET d == GetSpriteCache(LoadedSprite(State, n, pos, "Recolour"), n).data
         IN d.len >= RECOLOUR_SPRITE_SIZE /\ d.tail = "zero"

\* C28: no stale data after a reload of a slot.  Whenever LoadNextSprite
\* returns true for load_index with a sprite that is not a recolour
\* sprite, the entry's data is empty afterwards.
C28_NoStaleData ==
  \A n \in 0..(MAX_SPRITES - 1), pos \in FilePositions :
    HeaderType(pos) = "Normal"
      => GetSpriteCache(LoadedSprite(State, n, pos, IF IsMapgenSpriteID(n) THEN "MapGen" ELSE "Normal"),
                        n).data = NoData

\* C29: ReadSprite is never entered for a Recolour sprite.  In every state
\* reachable through LoadNextSprite, DupSprite, the clears and GetRawSprite
\* every existing entry of type Recolour has non-empty data.
C29_RecolourResident ==
  \A i \in Slots :
    (SpriteExists(State, i) /\ GetSpriteCache(State, i).type = "Recolour") => Resident(State, i)

\* C30: SkipSpriteData on chunk-encoded data returns true only if the
\* chunks consumed exactly num bytes, and the remaining count never
\* underflows: at no point have the chunks accounted for more than num
\* bytes.
C30_SkipExact ==
  /\ skip.skipped <= skip.num0
  /\ skip.num <= skip.num0
  /\ skip.result = "true" => skip.skipped = skip.num0

\* The positions of the records of id in the scanned section.
RecordsOf(id) == {k \in 1..Len(grf_file.section) : grf_file.section[k].id = id}

\* C26: after ReadGRFSpriteOffsets(file), for every id, GetGRFSpriteOffset
\* returns SIZE_MAX iff no record with that id occurs in the file's sprite
\* section and otherwise the position of the first record of that id; for
\* a container version below 2 it returns SIZE_MAX for every id.
C26_OffsetsOfFirstRecord ==
  grf_file.scanned
    => \A id \in 0..(MaxGrfId + 1) :
         GetGRFSpriteOffset(grf_sprite_offsets, id)
           = IF grf_file.cv < 2 \/ RecordsOf(id) = {} THEN SIZE_MAX
             ELSE CHOOSE k \in RecordsOf(id) : \A j \in RecordsOf(id) : k <= j

\* The values of a level that ResizeSprites compares and ResizeSpriteOut sets.
Fields == {"width", "height", "x_offs", "y_offs"}

\* The levels of the collection that a reduction could be made from.
Reducible == {z \in ZoomLevels : z > ZOOM_LVL_NORMAL /\ (z - 1) \in DOMAIN spritecollection}

\* v / 2 of the integers of the language: the quotient rounded towards zero.
IntDiv2(v) == IF v >= 0 THEN v \div 2 ELSE -((-v) \div 2)

\* C25 (as amended): whenever ResizeSpriteOut derives a level from the
\* next finer one, each of its width, height, x_offs and y_offs is half the
\* finer level's value rounded up, which is the finer value integer-divided
\* by 2 exactly when that value is even or negative.
C25_ReductionHalvesRoundingUp ==
  \A z \in Reducible : \A f \in Fields :
    LET finer == spritecollection[z - 1][f]
        made == ResizeSpriteOut(spritecollection, z).coll[z][f]
    IN /\ 2 * made \in {finer, finer + 1}
       /\ (made = IntDiv2(finer)) <=> (finer % 2 = 0 \/ finer < 0)

\* C25 witness: the loaded collection has a normal level of odd width and
\* negative odd offset and no 2x level, and ResizeSprites has derived the
\* missing level from it.
C25_Witness ==
  /\ resize_pc = "loaded"
  /\ DOMAIN spritecollection = {ZOOM_LVL_NORMAL}
  /\ spritecollection[ZOOM_LVL_NORMAL].width = 3
  /\ spritecollection[ZOOM_LVL_NORMAL].x_offs = -3
  /\ LET r == ResizeSprites(spritecollection, 0, ZOOM_LVL_NORMAL) IN
     /\ r.result = "true"
     /\ r.coll[ZOOM_LVL_OUT_2X].width = 2
     /\ r.coll[ZOOM_LVL_OUT_2X].x_offs = -1

\* C25 (as claimed): whenever ResizeSpriteOut derives a level from the next
\* finer one, each of its width, height, x_offs and y_offs equals the finer
\* level's value integer-divided by 2, odd and negative values included.
C25_ReductionIsIntegerDivision ==
  \A z \in Reducible : \A f \in Fields :
    ResizeSpriteOut(spritecollection, z).coll[z][f] = IntDiv2(spritecollection[z - 1][f])

\* C24: after PadSprites every level coarser than the normal one that the
\* loader provided has width, height, x_offs and y_offs equal to the normal
\* level's padded values brought to its scale, whatever the levels and the
\* alignment of the encoder: no assertion of ResizeSprites fails.
C24_PaddedLevelsMatchNormal ==
  /\ resize_pc # "assert"
  /\ resize_pc = "loaded" =>
       \A align \in SpriteAlignments :
         LET full == FullyZoomed(spritecollection)
             padded == PadSprites(full.coll, align)
         IN (full.ok /\ padded.ok) =>
              \A z \in (DOMAIN padded.coll) \ {ZOOM_LVL_NORMAL} : MatchesNormal(padded.coll, z)

\* C24 witness: the loader provided the normal level and a coarser one that
\* reaches further to the right, PadSprites has padded the normal level and
\* ResizeSprites has returned true.
C24_Witness ==
  /\ resize_pc = "loaded"
  /\ DOMAIN spritecollection = {ZOOM_LVL_NORMAL, ZOOM_LVL_OUT_4X}
  /\ spritecollection[ZOOM_LVL_NORMAL] = [width |-> 1, height |-> 1, x_offs |-> 2, y_offs |-> 0]
  /\ spritecollection[ZOOM_LVL_OUT_4X] = [width |-> 3, height |-> 2, x_offs |-> -3, y_offs |-> -1]
  /\ LET padded == PadSprites(spritecollection, 4) IN
     /\ padded.ok
     /\ padded.coll[ZOOM_LVL_NORMAL].width > 1
     /\ padded.coll[ZOOM_LVL_OUT_4X] # spritecollection[ZOOM_LVL_OUT_4X]
  /\ ResizeSprites(spritecollection, 4, ZOOM_LVL_NORMAL).result = "true"

====
